---- MODULE Spec2Model ----
(***************************************************************************)
(* Model of dash.py, the IPO dashboard script: the two table fetchers, the *)
(* two label parsers, and main()'s two tabs (GMP buckets and subscription  *)
(* cards).  Text is modelled as TLA+ strings, which TLC treats as          *)
(* sequences of characters (Len, \o, SubSeq).                              *)
(***************************************************************************)
EXTENDS Integers, Sequences, FiniteSets, TLC

VARIABLES
  pc,             \* position of main(), or "call"/"returned" for a lone parser call
  response,       \* what requests.get produced for the fetch in progress
  df,             \* the DataFrame main() holds (sequence of rows)
  processed_data, \* list built by the GMP tab loop
  upcoming,       \* rows rendered in column 1
  open_ipos,      \* rows rendered in column 2
  closing,        \* rows rendered in column 3
  sections,       \* subheaders / st.error messages rendered so far
  i,              \* index of the subscription row being iterated
  cards,          \* subscription cards rendered so far
  raised,         \* exception that ended main(), "" if none
  parse_calls,    \* number of parser calls made by main() in this run
  ipo_text,       \* arguments of a lone parser call
  status_text,
  ret             \* value returned by a lone parser call

vars == <<pc, response, df, processed_data, upcoming, open_ipos, closing,
          sections, i, cards, raised, parse_calls, ipo_text, status_text, ret>>

-----------------------------------------------------------------------------
(* Bounds of the model *)

MaxRows == 2
MaxIpoTokens == 3
MaxStatusTokens == 5
MaxCodeTokens == 4

-----------------------------------------------------------------------------
(* Python str / re primitives used by the script *)

Min(S) == CHOOSE m \in S : \A n \in S : m <= n

Char(s, k) == SubSeq(s, k, k)

Digits == {"0", "1", "2", "3", "4", "5", "6", "7", "8", "9"}

\* \s of the re module (the ASCII members that can occur in a table cell)
Whitespace == {" ", "\t", "\n"}

UpperAlpha == "ABCDEFGHIJKLMNOPQRSTUVWXYZ"
LowerAlpha == "abcdefghijklmnopqrstuvwxyz"

\* first index at which pat occurs in s, 0 if none (str.find + 1)
Find(s, pat) ==
  LET hits == {k \in 1..(Len(s) - Len(pat) + 1) : SubSeq(s, k, k + Len(pat) - 1) = pat}
  IN  IF hits = {} THEN 0 ELSE Min(hits)

\* pat in s
Contains(s, pat) == Find(s, pat) # 0

\* s.split(sep)[0]
SplitFirst(s, sep) ==
  IF Find(s, sep) = 0 THEN s ELSE SubSeq(s, 1, Find(s, sep) - 1)

\* s.replace(old, "")
RECURSIVE Remove(_, _)
Remove(s, old) ==
  LET k == Find(s, old)
  IN  IF k = 0 THEN s
      ELSE SubSeq(s, 1, k - 1) \o Remove(SubSeq(s, k + Len(old), Len(s)), old)

RECURSIVE LStrip(_)
LStrip(s) ==
  IF Len(s) > 0 /\ Char(s, 1) \in Whitespace THEN LStrip(SubSeq(s, 2, Len(s))) ELSE s

RECURSIVE RStrip(_)
RStrip(s) ==
  IF Len(s) > 0 /\ Char(s, Len(s)) \in Whitespace
  THEN RStrip(SubSeq(s, 1, Len(s) - 1)) ELSE s

\* s.strip()
Strip(s) == LStrip(RStrip(s))

EndsWith(s, w) == Len(s) >= Len(w) /\ SubSeq(s, Len(s) - Len(w) + 1, Len(s)) = w

\* re.sub(r'\s*<word>\s*$', '', s): the pattern matches only a final <word>
\* together with all whitespace around it
SubTrailing(s, word) ==
  LET t == RStrip(s)
  IN  IF EndsWith(t, word) THEN RStrip(SubSeq(t, 1, Len(t) - Len(word))) ELSE s

LowerChar(c) ==
  LET hits == {k \in 1..Len(UpperAlpha) : Char(UpperAlpha, k) = c}
  IN  IF hits = {} THEN c ELSE Char(LowerAlpha, Min(hits))

RECURSIVE Lower(_)
Lower(s) ==
  IF Len(s) = 0 THEN s ELSE LowerChar(Char(s, 1)) \o Lower(SubSeq(s, 2, Len(s)))

\* number of leading characters of SubSeq(s, k, Len(s)) that belong to class
RECURSIVE Run(_, _, _)
Run(s, k, class) ==
  IF k <= Len(s) /\ Char(s, k) \in class THEN 1 + Run(s, k + 1, class) ELSE 0

\* number of leading characters of SubSeq(s, k, Len(s)) other than c
RECURSIVE RunNot(_, _, _)
RunNot(s, k, c) ==
  IF k <= Len(s) /\ Char(s, k) # c THEN 1 + RunNot(s, k + 1, c) ELSE 0

CharIs(s, k, c) == k <= Len(s) /\ Char(s, k) = c

-----------------------------------------------------------------------------
(* The regular expressions of the script *)

\* r'Sub:(\d+\.?\d*x)' anchored at k: the length of group 1, 0 if no match
SubGroupLenAt(s, k) ==
  LET a   == k + 4
      d1  == Run(s, a, Digits)
      dot == IF CharIs(s, a + d1, ".") THEN 1 ELSE 0
      d2  == Run(s, a + d1 + dot, Digits)
      e   == a + d1 + dot + d2
  IN  IF k + 3 <= Len(s) /\ SubSeq(s, k, k + 3) = "Sub:" /\ d1 >= 1 /\ CharIs(s, e, "x")
      THEN e - a + 1 ELSE 0

\* the search with the rightmost match taken instead of the leftmost
sub_search_last(s) ==
  LET hits == {k \in 1..Len(s) : SubGroupLenAt(s, k) > 0}
  IN  IF hits = {} THEN <<>>
      ELSE LET k == CHOOSE m \in hits : \A n \in hits : n <= m
           IN  <<SubSeq(s, k + 4, k + 3 + SubGroupLenAt(s, k))>>

\* re.search(r'Sub:(\d+\.?\d*x)', s): group 1 of the leftmost match, as a
\* sequence of zero or one strings (no match = <<>>)
sub_search(s) ==
  LET hits == {k \in 1..Len(s) : SubGroupLenAt(s, k) > 0}
  IN  IF hits = {} THEN <<>>
      ELSE LET k == Min(hits) IN <<SubSeq(s, k + 4, k + 3 + SubGroupLenAt(s, k))>>

\* r'GMP:\$(\d+)\s*\(([^)]+)\)' anchored at k: <<group 1, group 2>>, <<>> if no match
GmpGroupsAt(s, k) ==
  LET a == k + 5
      d == Run(s, a, Digits)
      w == Run(s, a + d, Whitespace)
      p == a + d + w
      n == RunNot(s, p + 1, ")")
  IN  IF k + 4 <= Len(s) /\ SubSeq(s, k, k + 4) = "GMP:$" /\ d >= 1
         /\ CharIs(s, p, "(") /\ n >= 1 /\ CharIs(s, p + 1 + n, ")")
      THEN <<SubSeq(s, a, a + d - 1), SubSeq(s, p + 1, p + n)>>
      ELSE <<>>

\* re.search(r'GMP:\$(\d+)\s*\(([^)]+)\)', s): the groups of the leftmost match
gmp_search(s) ==
  LET hits == {k \in 1..Len(s) : GmpGroupsAt(s, k) # <<>>}
  IN  IF hits = {} THEN <<>> ELSE GmpGroupsAt(s, Min(hits))

\* re.findall(r'\d+\.\d+|\d+', s), scanning from index k
RECURSIVE FindAllFrom(_, _)
FindAllFrom(s, k) ==
  IF k > Len(s) THEN <<>>
  ELSE IF Char(s, k) \notin Digits THEN FindAllFrom(s, k + 1)
  ELSE LET d1   == Run(s, k, Digits)
           frac == IF CharIs(s, k + d1, ".") THEN Run(s, k + d1 + 1, Digits) ELSE 0
           len  == IF frac >= 1 THEN d1 + 1 + frac ELSE d1
       IN  <<SubSeq(s, k, k + len - 1)>> \o FindAllFrom(s, k + len)

findall_numbers(s) == FindAllFrom(s, 1)

-----------------------------------------------------------------------------
(* The parsers *)

\* ipo_text.split("IPO")[0].replace("BSE SME", "").replace("NSE SME", "").strip()
gmp_name(text) == Strip(Remove(Remove(SplitFirst(text, "IPO"), "BSE SME"), "NSE SME"))

parse_ipo_details(text, status) ==
  LET sub_match == sub_search(status)
  IN  [name         |-> gmp_name(text),
       type         |-> IF Contains(text, "SME") THEN "SME" ELSE "Mainboard",
       status       |-> Strip(status),
       subscription |-> IF sub_match # <<>> THEN sub_match[1] ELSE "N.A."]

\* name = ipo_text.split("GMP")[0].strip(); two re.sub calls; the final .strip()
subscription_name(text) ==
  Strip(SubTrailing(SubTrailing(Strip(SplitFirst(text, "GMP")), "SME"), "IPO"))

\* the table without its 'CT' entry
status_mapping_without_ct(status_code) ==
  CASE status_code = "O"  -> "Open"
    [] status_code = "C"  -> "Closed"
    [] OTHER              -> status_code

\* status_mapping.get(status_code, status_code)
status_mapping(status_code) ==
  CASE status_code = "O"  -> "Open"
    [] status_code = "C"  -> "Closed"
    [] status_code = "CT" -> "Closing Today"
    [] OTHER              -> status_code

parse_subscription_ipo_name(text, status) ==
  LET gmp_match == gmp_search(text)
  IN  [name           |-> subscription_name(text),
       type           |-> IF Contains(text, "SME") THEN "SME" ELSE "Mainboard",
       gmp_value      |-> IF gmp_match # <<>> THEN gmp_match[1] ELSE "N/A",
       gmp_percentage |-> IF gmp_match # <<>> THEN gmp_match[2] ELSE "N/A",
       status         |-> status_mapping(Strip(status))]

-----------------------------------------------------------------------------
(* Tables: a row is a function from column label to cell text *)

\* d.get(key, default)
Get(d, key, default) == IF key \in DOMAIN d THEN d[key] ELSE default

\* pd.DataFrame(table_data): every row gets every column, NaN where a dict
\* lacks the key
NaN == "nan"

Columns(table_data) == UNION {DOMAIN table_data[k] : k \in 1..Len(table_data)}

DataFrame(table_data) ==
  [k \in 1..Len(table_data) |->
     [c \in Columns(table_data) |-> Get(table_data[k], c, NaN)]]

\* df[columns]
SelectColumns(frame, columns) ==
  [k \in 1..Len(frame) |-> [c \in columns |-> frame[k][c]]]

\* BeautifulSoup(text, "html.parser").get_text() if text else text, for cells
\* whose markup is a sequence of complete <...> tags around plain text
RECURSIVE clean_html(_)
clean_html(text) ==
  LET a == Find(text, "<")
      b == IF a = 0 THEN 0 ELSE Find(SubSeq(text, a, Len(text)), ">")
  IN  IF a = 0 \/ b = 0 THEN text
      ELSE SubSeq(text, 1, a - 1) \o clean_html(SubSeq(text, a + b, Len(text)))

CleanColumns(frame, columns_to_clean) ==
  [k \in 1..Len(frame) |->
     [c \in DOMAIN frame[k] |->
        IF c \in columns_to_clean THEN clean_html(frame[k][c]) ELSE frame[k][c]]]

EmptyDataFrame == <<>>

HTTP_OK == 200

\* what requests.get and json.loads can produce
\* (json is the value json.loads returns; NotJson makes it raise)
NotJson == [invalid |-> TRUE]
HttpResponse(code, document) == [raises |-> FALSE, status_code |-> code, json |-> document]
ConnectionError == [raises |-> TRUE, status_code |-> 0, json |-> NotJson]

\* The body the two fetchers share up to the column selection (lines 27-56
\* and 133-163): every early return and the except clause give an empty
\* DataFrame.  The responses of the model carry text in every Status cell and
\* every cleaned cell, so the only exceptions inside the try block are those of
\* requests.get, json.loads and df[columns_to_keep]
FetchTable(resp, columns_to_clean, columns_to_keep) ==
  IF resp.raises THEN EmptyDataFrame                         \* requests.get raised
  ELSE IF resp.status_code # HTTP_OK THEN EmptyDataFrame
  ELSE IF resp.json = NotJson THEN EmptyDataFrame            \* json.loads raised
  ELSE LET table_data == Get(resp.json, "reportTableData", <<>>)
       IN  IF table_data = <<>> THEN EmptyDataFrame
           ELSE IF ~(columns_to_keep \subseteq Columns(table_data))
                THEN EmptyDataFrame                          \* KeyError
           ELSE SelectColumns(CleanColumns(DataFrame(table_data), columns_to_clean),
                              columns_to_keep)

\* df['Status'].str.contains("Upcoming|Open|Closing Today", case=False)
GmpStatusFilter(status) ==
  \/ Contains(Lower(status), "upcoming")
  \/ Contains(Lower(status), "open")
  \/ Contains(Lower(status), "closing today")

\* line 55
GmpColumnsToKeep ==
  {"IPO", "Status", "Price", "IPO Size", "Est Listing", "~Str_Listing", "~IPO_Category"}

\* the fetcher with the status-code test of line 30 left out
fetch_ipo_gmp_any_code(resp) ==
  SelectSeq(FetchTable([resp EXCEPT !.status_code = HTTP_OK],
                       {"Status", "GMP", "Est Listing", "IPO Size", "Fire Rating"},
                       GmpColumnsToKeep),
            LAMBDA row : GmpStatusFilter(row["Status"]))

fetch_ipo_gmp(resp) ==
  SelectSeq(FetchTable(resp,
                       {"Status", "GMP", "Est Listing", "IPO Size", "Fire Rating"},
                       GmpColumnsToKeep),
            LAMBDA row : GmpStatusFilter(row["Status"]))

\* df['Status'].str.contains("O|CT", case=False)
SubscriptionStatusFilter(status) ==
  Contains(Lower(status), "o") \/ Contains(Lower(status), "ct")

\* line 162
SubscriptionColumnsToKeep ==
  {"IPO", "IPO Price", "IPO Size", "Status", "QIB", "SHNI", "BHNI", "NII", "RII",
   "Total", "Close Date", "~IPO_Category"}

fetch_subscription_data(resp) ==
  SelectSeq(FetchTable(resp,
                       {"Status", "GMP", "IPO Price", "IPO Size", "Total"},
                       SubscriptionColumnsToKeep),
            LAMBDA row : SubscriptionStatusFilter(row["Status"]))

-----------------------------------------------------------------------------
(* main(): the GMP tab *)

\* lines 263-270: one record per row of df
ProcessRow(row) ==
  LET ipo_details == parse_ipo_details(row["IPO"], row["Status"])
  IN  [name         |-> ipo_details.name,
       type         |-> ipo_details.type,
       status       |-> ipo_details.status,
       subscription |-> ipo_details.subscription,
       price        |-> row["Price"],
       est_listing  |-> row["Est Listing"],
       ipo_size     |-> row["IPO Size"]]

\* processed_df[processed_df['status'].str.contains(label)]
Bucket(processed_df, label) ==
  SelectSeq(processed_df, LAMBDA r : Contains(r.status, label))

-----------------------------------------------------------------------------
(* main(): the subscription tab *)

\* lines 349-355
subscription_data(row) ==
  [c \in {"QIB", "SHNI", "NII", "RII", "Total"} |-> Get(row, c, "0.00x")]

\* lines 209-216: the six (label, value) pairs that are rendered
display_subscription_metrics(data) ==
  [label \in {"QIB", "SHNI", "BHNI", "NII", "RII", "Total"} |-> Get(data, label, "0.00x")]

\* the formatting made lenient: a placeholder instead of the IndexError
format_matches_lenient(status) ==
  LET matches == findall_numbers(status)
  IN  IF Len(matches) < 2 THEN <<"N/A">>
      ELSE <<matches[1] \o "(" \o matches[2] \o "%)">>

\* lines 360-363: matches = re.findall(...); f"{matches[0]}({matches[1]}%)".
\* <<>> stands for the IndexError of matches[0] / matches[1]
format_matches(status) ==
  LET matches == findall_numbers(status)
  IN  IF Len(matches) < 2 THEN <<>>
      ELSE <<matches[1] \o "(" \o matches[2] \o "%)">>

\* lines 364-382: what one iteration renders
Card(row, ipo_details, result) ==
  [title   |-> ipo_details.name \o " (" \o ipo_details.type \o ")",
   price   |-> row["IPO Price"],
   size    |-> row["IPO Size"],
   gmp     |-> result,
   pe      |-> Get(row, "P/E", "N/A"),
   metrics |-> display_subscription_metrics(subscription_data(row)),
   closes  |-> row["Close Date"],
   row     |-> row]

-----------------------------------------------------------------------------
(* Inputs: what the remote site may answer *)

RECURSIVE Concat(_)
Concat(q) == IF q = <<>> THEN "" ELSE Head(q) \o Concat(Tail(q))

\* all strings made of at most n tokens
TokenStrings(tokens, n) == {Concat(q) : q \in UNION {[1..m -> tokens] : m \in 0..n}}

\* all tables of at most n rows
Tables(rows, n) == UNION {[1..m -> rows] : m \in 0..n}

Without(row, column) == [c \in DOMAIN row \ {column} |-> row[c]]

GmpTableRow(ipo, status) ==
  [c \in {"IPO", "Status", "Price", "IPO Size", "Est Listing", "GMP",
          "~Str_Listing", "~IPO_Category"} |->
     CASE c = "IPO"         -> ipo
       [] c = "Status"      -> status
       [] c = "Price"       -> "100"
       [] c = "IPO Size"    -> "<b>50 Cr</b>"
       [] c = "Est Listing" -> "10-Jan"
       [] c = "GMP"         -> "<b>35</b>"
       [] OTHER             -> "x"]

GmpRowPool ==
  { GmpTableRow("Alpha IPO", "Upcoming"),
    GmpTableRow("Beta NSE SME IPO", "<span>Open</span> Sub:2.5x"),
    GmpTableRow("Delta IPO", "Open (Closing Today)"),
    GmpTableRow("Eps IPO", "Listed"),
    Without(GmpTableRow("Zeta IPO", "upcoming"), "Price") }

SubscriptionTableRow(ipo, status) ==
  [c \in {"IPO", "IPO Price", "IPO Size", "Status", "QIB", "SHNI", "BHNI", "NII",
          "RII", "Total", "Close Date", "~IPO_Category"} |->
     CASE c = "IPO"    -> ipo
       [] c = "Status" -> status
       [] c = "QIB"    -> "1.10x"
       [] c = "SHNI"   -> "2.20x"
       [] c = "BHNI"   -> "3.30x"
       [] c = "NII"    -> "4.40x"
       [] c = "RII"    -> "5.50x"
       [] c = "Total"  -> "<b>6.60x</b>"
       [] OTHER        -> "x"]

SubscriptionRowPool ==
  { SubscriptionTableRow("Beta SME IPO GMP:$35 (7.2%)", " CT "),
    SubscriptionTableRow("Gamma IPO", "O 115 43.73"),
    SubscriptionTableRow("Delta IPO", "O 43.73"),
    SubscriptionTableRow("Eps IPO", "C"),
    Without(SubscriptionTableRow("Zeta IPO", "o 7 8.5 9"), "BHNI") }

NoKeyDocument == [message |-> "maintenance"]

Responses(rows) ==
  {ConnectionError, HttpResponse(HTTP_OK, NotJson), HttpResponse(HTTP_OK, NoKeyDocument)}
  \cup {HttpResponse(HTTP_OK, [reportTableData |-> t]) : t \in Tables(rows, MaxRows)}
  \cup {HttpResponse(code, [reportTableData |-> t]) :
          code \in {404, 500}, t \in Tables(rows, 1)}

NoResponse == [raises |-> FALSE, status_code |-> 0, json |-> NotJson]
NoRet == [fn |-> "none"]

-----------------------------------------------------------------------------
(* main() as a state machine: one run of the script per button press *)

Init ==
  /\ pc = "tab1_fetch"
  /\ response = NoResponse
  /\ df = EmptyDataFrame
  /\ processed_data = <<>>
  /\ upcoming = <<>>
  /\ open_ipos = <<>>
  /\ closing = <<>>
  /\ sections = {}
  /\ i = 0
  /\ cards = <<>>
  /\ raised = ""
  /\ parse_calls = 0
  /\ ipo_text = ""
  /\ status_text = ""
  /\ ret = NoRet

\* line 254: df = fetch_ipo_gmp()
FetchIpoGmp ==
  /\ pc = "tab1_fetch"
  /\ \E resp \in Responses(GmpRowPool) :
       /\ response' = resp
       /\ df' = fetch_ipo_gmp(resp)
  /\ pc' = "tab1_render"
  /\ UNCHANGED <<processed_data, upcoming, open_ipos, closing, sections, i, cards,
                 raised, parse_calls, ipo_text, status_text, ret>>

\* lines 256-257: if df.empty: st.error(...)
GmpTabEmpty ==
  /\ pc = "tab1_render"
  /\ df = EmptyDataFrame
  /\ sections' = sections \cup {"tab1: Unable to fetch IPO data"}
  /\ pc' = "tab2_fetch"
  /\ UNCHANGED <<response, df, processed_data, upcoming, open_ipos, closing, i, cards,
                 raised, parse_calls, ipo_text, status_text, ret>>

\* lines 258-326: parse every row, then fill the three columns
GmpTabRender ==
  /\ pc = "tab1_render"
  /\ df # EmptyDataFrame
  /\ LET processed_df == [k \in 1..Len(df) |-> ProcessRow(df[k])]
     IN  /\ processed_data' = processed_df
         /\ upcoming' = Bucket(processed_df, "Upcoming")
         /\ open_ipos' = Bucket(processed_df, "Open")
         /\ closing' = Bucket(processed_df, "Closing Today")
  /\ parse_calls' = parse_calls + Len(df)
  /\ sections' = sections \cup {"Upcoming IPOs", "Open IPOs", "Closing Today"}
  /\ pc' = "tab2_fetch"
  /\ UNCHANGED <<response, df, i, cards, raised, ipo_text, status_text, ret>>

\* line 335: df = fetch_subscription_data()
FetchSubscriptionData ==
  /\ pc = "tab2_fetch"
  /\ \E resp \in Responses(SubscriptionRowPool) :
       /\ response' = resp
       /\ df' = fetch_subscription_data(resp)
  /\ pc' = "tab2_render"
  /\ UNCHANGED <<processed_data, upcoming, open_ipos, closing, sections, i, cards,
                 raised, parse_calls, ipo_text, status_text, ret>>

\* lines 336-337
SubscriptionTabEmpty ==
  /\ pc = "tab2_render"
  /\ df = EmptyDataFrame
  /\ sections' = sections \cup {"tab2: Unable to fetch IPO data"}
  /\ pc' = "done"
  /\ UNCHANGED <<response, df, processed_data, upcoming, open_ipos, closing, i, cards,
                 raised, parse_calls, ipo_text, status_text, ret>>

\* lines 338-343: the subheader, then the loop starts
SubscriptionTabBegin ==
  /\ pc = "tab2_render"
  /\ df # EmptyDataFrame
  /\ sections' = sections \cup {"Current IPOs"}
  /\ i' = 1
  /\ pc' = "tab2_loop"
  /\ UNCHANGED <<response, df, processed_data, upcoming, open_ipos, closing, cards,
                 raised, parse_calls, ipo_text, status_text, ret>>

\* lines 343-382: one iteration of the loop over df
SubscriptionRow ==
  /\ pc = "tab2_loop"
  /\ i <= Len(df)
  /\ parse_calls' = parse_calls + 1
  /\ LET row         == df[i]
         ipo_details == parse_subscription_ipo_name(row["IPO"], row["Status"])
         result      == format_matches(ipo_details.status)
     IN  IF ipo_details.status = ""
         THEN /\ i' = i + 1                                   \* continue
              /\ UNCHANGED <<pc, cards, raised>>
         ELSE IF result = <<>>
         THEN /\ raised' = "IndexError"                      \* line 363
              /\ pc' = "raised"
              /\ UNCHANGED <<i, cards>>
         ELSE /\ cards' = Append(cards, Card(row, ipo_details, result[1]))
              /\ i' = i + 1
              /\ UNCHANGED <<pc, raised>>
  /\ UNCHANGED <<response, df, processed_data, upcoming, open_ipos, closing, sections,
                 ipo_text, status_text, ret>>

\* lines 384-386: the loop is over, the footer is written
SubscriptionTabEnd ==
  /\ pc = "tab2_loop"
  /\ i > Len(df)
  /\ pc' = "done"
  /\ UNCHANGED <<response, df, processed_data, upcoming, open_ipos, closing, sections,
                 i, cards, raised, parse_calls, ipo_text, status_text, ret>>

\* lines 250-251, 331-332: a refresh button reruns the script from the top
Rerun ==
  /\ pc \in {"done", "raised"}
  /\ pc' = "tab1_fetch"
  /\ response' = NoResponse
  /\ df' = EmptyDataFrame
  /\ processed_data' = <<>>
  /\ upcoming' = <<>>
  /\ open_ipos' = <<>>
  /\ closing' = <<>>
  /\ sections' = {}
  /\ i' = 0
  /\ cards' = <<>>
  /\ raised' = ""
  /\ parse_calls' = 0
  /\ UNCHANGED <<ipo_text, status_text, ret>>

Next ==
  \/ FetchIpoGmp
  \/ GmpTabEmpty
  \/ GmpTabRender
  \/ FetchSubscriptionData
  \/ SubscriptionTabEmpty
  \/ SubscriptionTabBegin
  \/ SubscriptionRow
  \/ SubscriptionTabEnd
  \/ Rerun

Spec == Init /\ [][Next]_vars

-----------------------------------------------------------------------------
(* The two parsers called on their own, over families of label and status   *)
(* texts                                                                    *)

IpoTokens == {"IPO", "GMP", "BSE SME", "NSE SME", "BSE", " SME", "X", " "}

\* labels around the GMP:<currency><number>(<percentage>) annotation
GmpLabels ==
  {prefix \o "GMP:" \o currency \o number \o space \o open \o percentage \o close :
     prefix \in {"", "ABC IPO "}, currency \in {"$", "₹", ""},
     number \in {"35", "3", "", "3x"}, space \in {"", " "}, open \in {"(", ""},
     percentage \in {"7.2%", "7", ""}, close \in {")", ""}}

IpoTexts == TokenStrings(IpoTokens, MaxIpoTokens) \cup GmpLabels

StatusTokens == {"Sub:", "Sub:2", "2", ".", "x", " "}

CodeTokens == {"O", "C", "T", "Z", " ", "\t"}

StatusTexts ==
  TokenStrings(StatusTokens, MaxStatusTokens) \cup TokenStrings(CodeTokens, MaxCodeTokens)

InitParse ==
  /\ pc = "call"
  /\ \/ ipo_text \in IpoTexts /\ status_text = "Open"
     \/ ipo_text = "ABC IPO" /\ status_text \in StatusTexts
  /\ ret = NoRet
  /\ response = NoResponse
  /\ df = EmptyDataFrame
  /\ processed_data = <<>>
  /\ upcoming = <<>>
  /\ open_ipos = <<>>
  /\ closing = <<>>
  /\ sections = {}
  /\ i = 0
  /\ cards = <<>>
  /\ raised = ""
  /\ parse_calls = 0

ParseIpoDetails ==
  /\ pc = "call"
  /\ ret' = [fn |-> "parse_ipo_details", value |-> parse_ipo_details(ipo_text, status_text)]
  /\ pc' = "returned"
  /\ UNCHANGED <<response, df, processed_data, upcoming, open_ipos, closing, sections,
                 i, cards, raised, parse_calls, ipo_text, status_text>>

ParseSubscriptionIpoName ==
  /\ pc = "call"
  /\ ret' = [fn    |-> "parse_subscription_ipo_name",
             value |-> parse_subscription_ipo_name(ipo_text, status_text)]
  /\ pc' = "returned"
  /\ UNCHANGED <<response, df, processed_data, upcoming, open_ipos, closing, sections,
                 i, cards, raised, parse_calls, ipo_text, status_text>>

NextParse == ParseIpoDetails \/ ParseSubscriptionIpoName

SpecParse == InitParse /\ [][NextParse]_vars

-----------------------------------------------------------------------------
(* Properties *)

Count(q, r) == Cardinality({k \in DOMAIN q : q[k] = r})

Range(q) == {q[k] : k \in DOMAIN q}

\* C1: every parsed record is placed in at most one of the three buckets
\* Upcoming, Open, Closing Today, so the buckets together never hold more
\* records than were parsed.
C1_BucketsDisjoint ==
  /\ Len(upcoming) + Len(open_ipos) + Len(closing) <= Len(processed_data)
  /\ \A r \in Range(processed_data) :
       Count(upcoming, r) + Count(open_ipos, r) + Count(closing, r)
         <= Count(processed_data, r)

\* C4: a record whose status text contains both "Open" and "Closing Today" is
\* shown under Closing Today and not under Open.
C4_ClosingTodayBeforeOpen ==
  \A r \in Range(processed_data) :
    (Contains(r.status, "Open") /\ Contains(r.status, "Closing Today"))
      => (r \in Range(closing) /\ r \notin Range(open_ipos))

\* the status main() hands to re.findall for a row of df
MappedStatus(row) == parse_subscription_ipo_name(row["IPO"], row["Status"]).status

\* C2: in the subscription loop a row whose mapped status holds fewer than two
\* numeric substrings ends main() with an IndexError and gets no card; a row
\* with at least two gets a card whose GMP text is "<first>(<second>%)"
\* ("115 43.73" gives "115(43.73%)", "43.73" and "Open" raise).
C2_TwoNumericSubstrings ==
  /\ format_matches("115 43.73") = <<"115(43.73%)">>
  /\ format_matches("43.73") = <<>>
  /\ format_matches("Open") = <<>>
  /\ (raised = "IndexError") <=> (pc = "raised")
  /\ (pc \in {"tab2_loop", "raised", "done"} /\ df # EmptyDataFrame) =>
       /\ Len(cards) = i - 1
       /\ \A k \in 1..Len(cards) :
            LET matches == findall_numbers(MappedStatus(df[k]))
            IN  /\ cards[k].row = df[k]
                /\ Len(matches) >= 2
                /\ cards[k].gmp = matches[1] \o "(" \o matches[2] \o "%)"
                /\ df[k]["Status"] = "O 115 43.73" => cards[k].gmp = "115(43.73%)"
                /\ df[k]["Status"] = "o 7 8.5 9" => cards[k].gmp = "7(8.5%)"
       /\ pc = "raised" => Len(findall_numbers(MappedStatus(df[i]))) < 2
       /\ pc = "done" => i = Len(df) + 1

\* a card was rendered for "O 115 43.73", then "O 43.73" raised
C2_Witness ==
  /\ pc = "raised"
  /\ raised = "IndexError"
  /\ Len(cards) = 1
  /\ cards[1].gmp = "115(43.73%)"
  /\ df[2]["Status"] = "O 43.73"

\* the responses for which a fetcher has nothing to return
FailedResponse(resp, columns_to_keep) ==
  \/ resp.raises
  \/ resp.status_code # HTTP_OK
  \/ resp.json = NotJson
  \/ "reportTableData" \notin DOMAIN resp.json
  \/ resp.json.reportTableData = <<>>
  \/ ~(columns_to_keep \subseteq Columns(resp.json.reportTableData))

\* C3: a failed or empty fetch (non-200, no or empty reportTableData, any
\* exception) gives an empty table in both fetchers, and on an empty table
\* main() calls no parser, builds no record and renders no bucket or card,
\* without an exception.
C3_EmptyFetchEmptyOutput ==
  /\ (pc = "tab1_render" /\ FailedResponse(response, GmpColumnsToKeep))
       => df = EmptyDataFrame
  /\ (pc = "tab2_render" /\ FailedResponse(response, SubscriptionColumnsToKeep))
       => df = EmptyDataFrame
  /\ (pc = "tab2_fetch" /\ df = EmptyDataFrame) =>
       /\ parse_calls = 0
       /\ processed_data = <<>>
       /\ upcoming = <<>> /\ open_ipos = <<>> /\ closing = <<>>
       /\ sections \cap {"Upcoming IPOs", "Open IPOs", "Closing Today"} = {}
  /\ (pc \in {"tab2_render", "tab2_loop", "raised", "done"} /\ df = EmptyDataFrame) =>
       /\ pc \in {"tab2_render", "done"}
       /\ parse_calls = Len(processed_data)
       /\ cards = <<>>
       /\ "Current IPOs" \notin sections
       /\ raised = ""

\* both fetches answered 404 with a table in the body; main() finished with
\* nothing parsed and nothing rendered but the two error messages
C3_Witness ==
  /\ pc = "done"
  /\ response.status_code = 404
  /\ response.json.reportTableData # <<>>
  /\ df = EmptyDataFrame
  /\ parse_calls = 0
  /\ cards = <<>>
  /\ sections = {"tab1: Unable to fetch IPO data", "tab2: Unable to fetch IPO data"}

\* C10: for each of the six category codes the value shown on a card is the
\* row's value for that code when the row carries it, and "0.00x" only when
\* the row has none.
C10_CategoryFigures ==
  \A k \in 1..Len(cards) :
    \A code \in {"QIB", "SHNI", "BHNI", "NII", "RII", "Total"} :
      cards[k].metrics[code] =
        IF code \in DOMAIN cards[k].row THEN cards[k].row[code] ELSE "0.00x"

-----------------------------------------------------------------------------
(* Properties of the parsers *)

Returned(fn) == pc = "returned" /\ ret.fn = fn

\* s[a..b] is s without its surrounding whitespace
IsTrim(s, a, b) ==
  /\ a <= b + 1
  /\ \A k \in 1..(a - 1) : Char(s, k) \in Whitespace
  /\ \A k \in (b + 1)..Len(s) : Char(s, k) \in Whitespace
  /\ a <= b => (Char(s, a) \notin Whitespace /\ Char(s, b) \notin Whitespace)

\* C5: parse_subscription_ipo_name maps the trimmed code "O" to Open, "C" to
\* Closed, "CT" to Closing Today, and returns every other trimmed code as it is.
C5_CodeClassification ==
  Returned("parse_subscription_ipo_name") =>
    \A a \in 1..(Len(status_text) + 1), b \in 0..Len(status_text) :
      IsTrim(status_text, a, b) =>
        LET code == SubSeq(status_text, a, b)
        IN  /\ code = "O" => ret.value.status = "Open"
            /\ code = "C" => ret.value.status = "Closed"
            /\ code = "CT" => ret.value.status = "Closing Today"
            /\ code \notin {"O", "C", "CT"} => ret.value.status = code

\* " CT\t" came back as Closing Today
C5_Witness ==
  /\ Returned("parse_subscription_ipo_name")
  /\ status_text = " CT\t"
  /\ ret.value.status = "Closing Today"

\* C6: name extraction is idempotent: parsing the name a parser returned
\* gives that name again, for both parsers.
C6_NameExtractionIdempotent ==
  /\ Returned("parse_ipo_details") =>
       parse_ipo_details(ret.value.name, status_text).name = ret.value.name
  /\ Returned("parse_subscription_ipo_name") =>
       parse_subscription_ipo_name(ret.value.name, status_text).name = ret.value.name

IsDigits(t) == Len(t) >= 1 /\ \A k \in 1..Len(t) : Char(t, k) \in Digits

\* a decimal number as the token is written: digits, then optionally a point
\* and further digits ("2", "2.5", "12.", not ".5")
IsDecimal(n) ==
  \E a \in 1..Len(n) :
    /\ IsDigits(SubSeq(n, 1, a))
    /\ a = Len(n) \/ (Char(n, a + 1) = "." /\ \A k \in (a + 2)..Len(n) : Char(n, k) \in Digits)

\* the lengths len for which s holds "Sub:" <n> "x" at k with Len(n) = len
SubTokenLengths(s, k) ==
  IF k + 3 <= Len(s) /\ SubSeq(s, k, k + 3) = "Sub:"
  THEN {len \in 1..(Len(s) - k - 4) :
          Char(s, k + 4 + len) = "x" /\ IsDecimal(SubSeq(s, k + 4, k + 3 + len))}
  ELSE {}

\* C7: the subscription parse_ipo_details returns is "<n>x" of the first token
\* "Sub:<n>x" of the status text, and "N.A." when the text holds no such token.
C7_SubscriptionMultiple ==
  Returned("parse_ipo_details") =>
    LET at == {k \in 1..Len(status_text) : SubTokenLengths(status_text, k) # {}}
    IN  IF at = {} THEN ret.value.subscription = "N.A."
        ELSE \E len \in SubTokenLengths(status_text, Min(at)) :
               ret.value.subscription =
                 SubSeq(status_text, Min(at) + 4, Min(at) + 4 + len)

\* two tokens in the text, the first one returned
C7_Witness ==
  /\ Returned("parse_ipo_details")
  /\ status_text = "Sub:2xSub:22x"
  /\ ret.value.subscription = "2x"

\* C8: a label with GMP:<rupee sign><number>(<percentage>) gives gmp_value
\* <number> and gmp_percentage <percentage>; without the annotation both are
\* "N/A".
C8_GmpExtraction ==
  Returned("parse_subscription_ipo_name") =>
    /\ \A prefix \in {"", "ABC IPO "}, number \in {"35", "3"}, percentage \in {"7.2%", "7"} :
         ipo_text = prefix \o "GMP:₹" \o number \o "(" \o percentage \o ")"
           => (ret.value.gmp_value = number /\ ret.value.gmp_percentage = percentage)
    /\ ~Contains(ipo_text, "GMP:")
         => (ret.value.gmp_value = "N/A" /\ ret.value.gmp_percentage = "N/A")

\* C9: a non-empty label never gives an empty name, in either parser.
C9_NameNonEmpty ==
  (pc = "returned" /\ ipo_text # "") => ret.value.name # ""

====
